---- MODULE Spec2Model ----
(***************************************************************************)
(* PV fault detection front end: the cascading three-stage prediction      *)
(* (services/mockPredictionService.ts), the API client (apiService:        *)
(* checkBackendHealth, predictImage, predictBatch) and the analysis page   *)
(* (Index: handleAnalyze and the handlers around it, PipelineVisualizer).  *)
(*                                                                         *)
(* Seven specifications share the module, one per component:               *)
(*   SpecMock  runFullPrediction and the exported stage functions          *)
(*   SpecApi   predictImage / predictBatch against any 2xx body            *)
(*   SpecBatch predictBatch against the batch endpoint of the backend      *)
(*   SpecPage  the Index page handlers                                     *)
(*             (SpecPageFair: the promises handleAnalyze awaits settle)    *)
(*   SpecHistory  the Index page over a long run of analyses (history)     *)
(*   SpecPoll  the Index page's health polling (pollHealth)                *)
(*   SpecStore the backend's Artifact Store and Model Registry             *)
(* A specification leaves the other components' variables at their        *)
(* initial values.                                                         *)
(***************************************************************************)
EXTENDS Integers, Sequences, FiniteSets, TLC

VARIABLES
    now,            \* the clock read by new Date()
    \* ---- mockPredictionService.ts: one runFullPrediction call
    mpc,            \* position in runFullPrediction
    imageFile,      \* its imageFile argument
    hasCallback,    \* whether onStageComplete was passed
    result,         \* the local `result` object (line 63)
    promise,        \* the promise runFullPrediction returned
    stageCalls,     \* the stage functions invoked so far, in order
    stageReturns,   \* the stage promises settled so far: <<stage, how>>
    stage3Arg,      \* the groupLabel passed to runStage3 (line 80)
    notified,       \* the onStageComplete(stage, result) calls, in order
    direct3,        \* the last direct call of the exported runStage3
    \* ---- apiService: one predictImage / predictBatch call
    apiOp,          \* "none", "predictImage" or "predictBatch"
    apiFiles,       \* the files passed (predictImage: one file)
    apiFetch,       \* how the fetch of the call ended
    apiPromise,     \* the promise the call returned
    classified,     \* the backend's outcome per uploaded file, in upload order
    \* ---- Index page: React state
    selectedImage, isProcessing, currentStage, currentResult, history,
    selectedHistoryIndex,
    \* ---- Index page: the handleAnalyze run in flight
    apc,            \* the await handleAnalyze is suspended at ("idle": none)
    analysisImage,  \* the selectedImage its closure holds
    analysisHealth, \* its local `health`
    analysisResult, \* its local `result`
    analysisPredict,\* the promise predictImage returned to it
    stageLog,       \* its setCurrentStage(...) calls, in order
    requests,       \* the backend requests it has sent, in order
    toast,          \* the last toast shown
    \* ---- Index page: health polling (the effect of lines 30-80)
    backendStatus, backendMessage, showReadyBanner,
    lastStatusRef,  \* lastStatusRef.current
    readyTimeoutRef,\* the timer readyTimeoutRef.current names
    cancelled,      \* the effect's `cancelled`
    timeoutId,      \* the timer the effect's `timeoutId` names
    ppc,            \* where pollHealth is: "fetching", "waiting", "stopped"
    polledFetch,    \* how the fetch of the last returned health check ended
    polledHealth,   \* pollHealth's local `health` of that check
    polls,          \* the polls completed while mounted (counted to MaxPolls)
    \* ---- backend: Artifact Store and Model Registry
    artifact,       \* CachedArtifact status per model identifier
    slot,           \* the registry's slot per model identifier
    downloads,      \* downloads started per model identifier
    loads,          \* constructions started per model identifier
    failures,       \* downloads failed per model identifier
    call,           \* per caller: its ensure / get call
    storeCalls      \* the calls made so far

mockVars == <<mpc, imageFile, hasCallback, result, promise, stageCalls,
              stageReturns, stage3Arg, notified, direct3>>
apiVars == <<apiOp, apiFiles, apiFetch, apiPromise, classified>>
pageVars == <<selectedImage, isProcessing, currentStage, currentResult, history,
              selectedHistoryIndex, apc, analysisImage, analysisHealth,
              analysisResult, analysisPredict, stageLog, requests, toast>>
pollVars == <<backendStatus, backendMessage, showReadyBanner, lastStatusRef,
              readyTimeoutRef, cancelled, timeoutId, ppc, polledFetch,
              polledHealth, polls>>
storeVars == <<artifact, slot, downloads, loads, failures, call, storeCalls>>
vars == <<now, mockVars, apiVars, pageVars, pollVars, storeVars>>

(***************************************************************************)
(* Bounds                                                                  *)
(***************************************************************************)
MaxClock == 2
\* the longest list of files given to predictBatch, and the longest array in
\* a response body
MaxBatch == 2
\* the analyses that may complete (each adds a history entry)
MaxAnalyses == 3
\* the completed polls that are told apart
MaxPolls == 3
\* the concurrent callers of the backend's store and registry, and the calls
\* they make in all
MaxCallers == 2
MaxStoreCalls == 3
\* the last millisecond of the clock in a long run of analyses: results are
\* stamped 0..MaxHistoryClock, one more than the history keeps
MaxHistoryClock == 10

(***************************************************************************)
(* JavaScript values                                                       *)
(***************************************************************************)
Undefined == [undefined |-> TRUE]
Null == [null |-> TRUE]
\* `x ?? undefined`
NullishToUndefined(x) == IF x = Null THEN Undefined ELSE x
\* an optional field that holds an object
Present(x) == x # Undefined /\ x # Null

Files == {"panelA.jpg", "panelB.jpg"}
NoFile == "no-file"
\* URL.createObjectURL(file): a blob URL that refers to `file`
CreateObjectURL(file) == [blob |-> file]
\* Math.floor(Math.random() * n), Math.random() in [0, 1): an index 1..n of a
\* TLA+ sequence
RandomIndex(n) == 1..n

(***************************************************************************)
(* mockPredictionService.ts                                                *)
(***************************************************************************)
GROUP_FAULT_MAPPING ==
    [g \in {"Hotspot", "Obstruction", "Cell-Defect", "Electrical-Fault"} |->
        CASE g = "Hotspot" -> <<"Hot-Spot-Multi", "Hot-Spot">>
          [] g = "Obstruction" -> <<"Soiling", "Vegetation", "Shadowing">>
          [] g = "Cell-Defect" -> <<"Cracking", "Cell", "Cell-Multi">>
          [] g = "Electrical-Fault" -> <<"Diode", "Diode-Multi", "Offline-Module">>]

GROUPS == <<"Hotspot", "Obstruction", "Cell-Defect", "Electrical-Fault">>

\* A group label that is no key of GROUP_FAULT_MAPPING
UnknownGroup == "Unknown-Group"
GroupLabels == {GROUPS[i] : i \in 1..Len(GROUPS)} \cup {UnknownGroup}

\* Confidences in hundredths: the two ends of each stage's range.
Confidence1 == {85, 98}     \* 0.85 + Math.random() * 0.14
Confidence2 == {80, 97}     \* 0.80 + Math.random() * 0.18
Confidence3 == {75, 96}     \* 0.75 + Math.random() * 0.22

\* runStage1: the results it can resolve with
RunStage1 ==
    {[label |-> l, confidence |-> c] : l \in {"Anomalous", "Healthy"}, c \in Confidence1}

\* runStage2: the results it can resolve with
RunStage2 ==
    {[group_label |-> GROUPS[i], confidence |-> c] :
        i \in RandomIndex(Len(GROUPS)), c \in Confidence2}

\* bug variant: the fault range does not follow the group
FaultRange_IgnoresGroup(groupLabel) == <<"Hot-Spot">>

\* line 45: GROUP_FAULT_MAPPING[groupLabel] || ["Hot-Spot"]
\* (groupLabel ranges over GroupLabels: no name inherited from Object.prototype)
FaultRange(groupLabel) ==
    IF groupLabel \in DOMAIN GROUP_FAULT_MAPPING
    THEN GROUP_FAULT_MAPPING[groupLabel]
    ELSE <<"Hot-Spot">>

\* runStage3(imageFile, groupLabel): the results it can resolve with
RunStage3(groupLabel) ==
    {[fine_label |-> FaultRange(groupLabel)[i], confidence |-> c] :
        i \in RandomIndex(Len(FaultRange(groupLabel))), c \in Confidence3}

\* bug variants: the early exit tests the wrong label / is missing
EarlyExit_Inverted(stage1Result) == stage1Result.label = "Anomalous"
EarlyExit_Never(stage1Result) == FALSE

\* line 70: if (stage1Result.label === "Healthy") return result
EarlyExit(stage1Result) == stage1Result.label = "Healthy"

\* lines 63-67: the result object built after stage 1
NewResult(stage1Result, file, time) ==
    [stage1 |-> stage1Result, stage2 |-> Undefined, stage3 |-> Undefined,
     timestamp |-> time, imageUrl |-> CreateObjectURL(file)]

\* bug variant: the callback fires twice for a stage
Notify_Twice(stage, r) ==
    notified' = IF hasCallback
                THEN Append(Append(notified, <<stage, r>>), <<stage, r>>)
                ELSE notified

\* onStageComplete?.(stage, r)
Notify(stage, r) ==
    notified' = IF hasCallback THEN Append(notified, <<stage, r>>) ELSE notified

Pending == [state |-> "pending"]
Fulfilled(v) == [state |-> "fulfilled", value |-> v]
\* bug variant: a failed stage is swallowed and what was computed is returned
Rejected_ReturnsPartial(stage) == Fulfilled(result)

\* a rejected await is not caught in runFullPrediction: it rejects the call
Rejected(stage) == [state |-> "rejected", stage |-> stage]

NoCall == [state |-> "none"]
\* selectedHistoryIndex: null (JavaScript indices are 0-based, -1: not found)
NullIndex == -2
NoToast == [kind |-> "none"]
\* runStage3 has not been called by runFullPrediction
NoArg == ""
\* a timer id variable: undefined, or the id of a timer set with `delay` ms
\* that is pending, has fired or was cleared
NoTimer == [state |-> "none"]
Timer(delay) == [state |-> "pending", delay |-> delay]
\* a string held where null may be held too
JsString(s) == [string |-> s]
\* the model identifiers a ModelSpec may carry, and the callers
ModelIds == {"stage1", "stage2"}
Callers == 1..MaxCallers
NoStoreCall == [op |-> "none", id |-> "", pc |-> "idle", joined |-> FALSE,
                outcome |-> "none"]

\* runFullPrediction(file, cb) is called: it runs up to `await runStage1`
CallRunFullPrediction(file, cb) ==
    /\ mpc \in {"idle", "returned", "threw"}
    /\ mpc' = "await1"
    /\ imageFile' = file
    /\ hasCallback' = cb
    /\ result' = Undefined
    /\ promise' = Pending
    /\ stageCalls' = <<1>>
    /\ stageReturns' = <<>>
    /\ stage3Arg' = NoArg
    /\ notified' = <<>>
    /\ UNCHANGED <<now, direct3, apiVars, pageVars, pollVars, storeVars>>

\* runStage1 resolves: lines 60-75
Stage1Resolves(r) ==
    /\ mpc = "await1"
    /\ stageReturns' = Append(stageReturns, <<1, "resolved">>)
    /\ Notify(1, r)
    /\ IF EarlyExit(r)
       THEN /\ result' = NewResult(r, imageFile, now)
            /\ promise' = Fulfilled(result')
            /\ mpc' = "returned"
            /\ UNCHANGED stageCalls
       ELSE /\ result' = NewResult(r, imageFile, now)
            /\ stageCalls' = Append(stageCalls, 2)
            /\ mpc' = "await2"
            /\ UNCHANGED promise
    /\ UNCHANGED <<now, imageFile, hasCallback, stage3Arg, direct3, apiVars, pageVars, pollVars, storeVars>>

\* runStage2 resolves: lines 75-80
Stage2Resolves(r) ==
    /\ mpc = "await2"
    /\ stageReturns' = Append(stageReturns, <<2, "resolved">>)
    /\ Notify(2, r)
    /\ result' = [result EXCEPT !.stage2 = r]
    /\ stage3Arg' = r.group_label
    /\ stageCalls' = Append(stageCalls, 3)
    /\ mpc' = "await3"
    /\ UNCHANGED <<now, imageFile, hasCallback, promise, direct3, apiVars, pageVars, pollVars, storeVars>>

\* runStage3 resolves: lines 80-84
Stage3Resolves(r) ==
    /\ mpc = "await3"
    /\ stageReturns' = Append(stageReturns, <<3, "resolved">>)
    /\ Notify(3, r)
    /\ result' = [result EXCEPT !.stage3 = r]
    /\ promise' = Fulfilled(result')
    /\ mpc' = "returned"
    /\ UNCHANGED <<now, imageFile, hasCallback, stageCalls, stage3Arg, direct3, apiVars, pageVars, pollVars, storeVars>>

\* the awaited stage promise rejects: the await throws, nothing catches it.
\* (The mock stage bodies only wait on a timer and build a record; this is
\* the path runFullPrediction takes when the stage function it awaits fails.)
StageRejects(stage) ==
    /\ mpc = CASE stage = 1 -> "await1" [] stage = 2 -> "await2" [] stage = 3 -> "await3"
    /\ stageReturns' = Append(stageReturns, <<stage, "rejected">>)
    /\ promise' = Rejected(stage)
    /\ mpc' = "threw"
    /\ UNCHANGED <<now, imageFile, hasCallback, result, stageCalls, stage3Arg,
                   notified, direct3, apiVars, pageVars, pollVars, storeVars>>

\* a direct call of the exported runStage3(imageFile, groupLabel)
CallRunStage3(groupLabel, r) ==
    /\ mpc = "idle"
    /\ r \in RunStage3(groupLabel)
    /\ direct3' = [groupLabel |-> groupLabel, outcome |-> Fulfilled(r)]
    /\ UNCHANGED <<now, mpc, imageFile, hasCallback, result, promise, stageCalls,
                   stageReturns, stage3Arg, notified, apiVars, pageVars, pollVars, storeVars>>

Tick ==
    /\ now < MaxClock
    /\ now' = now + 1
    /\ UNCHANGED <<mockVars, apiVars, pageVars, pollVars, storeVars>>

InitMockVars ==
    /\ mpc = "idle"
    /\ imageFile = NoFile
    /\ hasCallback = FALSE
    /\ result = Undefined
    /\ promise = NoCall
    /\ stageCalls = <<>>
    /\ stageReturns = <<>>
    /\ stage3Arg = NoArg
    /\ notified = <<>>
    /\ direct3 = NoCall

InitApiVars ==
    /\ apiOp = "none"
    /\ apiFiles = <<>>
    /\ apiFetch = NoCall
    /\ apiPromise = NoCall
    /\ classified = <<>>

\* useState(...) initial values, lines 18-23; no handleAnalyze has run
InitPageVars ==
    /\ selectedImage = NoFile
    /\ isProcessing = FALSE
    /\ currentStage = "idle"
    /\ currentResult = Null
    /\ history = <<>>
    /\ selectedHistoryIndex = NullIndex
    /\ apc = "idle"
    /\ analysisImage = NoFile
    /\ analysisHealth = NoCall
    /\ analysisResult = Null
    /\ analysisPredict = NoCall
    /\ stageLog = <<>>
    /\ requests = <<>>
    /\ toast = NoToast

\* useState / useRef initial values, lines 24-28, and the effect of lines
\* 30-69 has run: pollHealth() is suspended at `await checkBackendHealth()`
InitPollVars ==
    /\ backendStatus = "unknown"
    /\ backendMessage = Null
    /\ showReadyBanner = FALSE
    /\ lastStatusRef = "unknown"
    /\ readyTimeoutRef = NoTimer
    /\ cancelled = FALSE
    /\ timeoutId = NoTimer
    /\ ppc = "fetching"
    /\ polledFetch = NoCall
    /\ polledHealth = NoCall
    /\ polls = 0

\* process start: nothing cached, nothing loaded, no call made
InitStoreVars ==
    /\ artifact = [id \in ModelIds |-> "absent"]
    /\ slot = [id \in ModelIds |-> "empty"]
    /\ downloads = [id \in ModelIds |-> 0]
    /\ loads = [id \in ModelIds |-> 0]
    /\ failures = [id \in ModelIds |-> 0]
    /\ call = [c \in Callers |-> NoStoreCall]
    /\ storeCalls = 0

Init ==
    /\ now = 0
    /\ InitStoreVars
    /\ InitMockVars
    /\ InitApiVars
    /\ InitPageVars
    /\ InitPollVars

NextMock ==
    \/ \E file \in Files, cb \in BOOLEAN : CallRunFullPrediction(file, cb)
    \/ \E r \in RunStage1 : Stage1Resolves(r)
    \/ \E r \in RunStage2 : Stage2Resolves(r)
    \/ \E r \in RunStage3(stage3Arg) : Stage3Resolves(r)
    \/ \E stage \in 1..3 : StageRejects(stage)
    \/ \E g \in GroupLabels : \E r \in RunStage3(g) : CallRunStage3(g, r)
    \/ Tick

SpecMock == Init /\ [][NextMock]_vars

(***************************************************************************)
(* apiService: predictImage, predictBatch                                  *)
(***************************************************************************)
\* obj.field in JavaScript: undefined when the object has no such property
Get(obj, field) == IF field \in DOMAIN obj THEN obj[field] ELSE Undefined

\* How a fetch(...) ends: it rejects (network error), or resolves with a
\* response that is not ok (`text` is its body), or with a 2xx response whose
\* body parses to `json` (HttpOkInvalidJson: response.json() rejects).
NetworkError == [kind |-> "network-error"]
HttpError(text) == [kind |-> "response", ok |-> FALSE, text |-> text]
HttpOk(json) == [kind |-> "response", ok |-> TRUE, parses |-> TRUE, json |-> json]
HttpOkInvalidJson == [kind |-> "response", ok |-> TRUE, parses |-> FALSE]

\* an exception leaving an async function rejects its promise
Threw(name, message) == [state |-> "rejected", error |-> [name |-> name, message |-> message]]

\* lines 56-62: predictImage's transform of the response body
TransformPrediction(data, file, time) ==
    [stage1 |-> Get(data, "stage1"),
     stage2 |-> Get(data, "stage2"),
     stage3 |-> Get(data, "stage3"),
     timestamp |-> time,
     imageUrl |-> CreateObjectURL(file)]

\* predictImage(file), lines 39-63
PredictImageOutcome(file, fetch, time) ==
    IF fetch.kind = "network-error" THEN Threw("TypeError", <<"fetch failed">>)
    ELSE IF ~fetch.ok THEN Threw("Error", <<"Prediction failed: ", fetch.text>>)
    ELSE IF ~fetch.parses THEN Threw("SyntaxError", <<"invalid json">>)
    ELSE Fulfilled(TransformPrediction(fetch.json, file, time))

\* bug variant: every entry takes its imageUrl from the first file
TransformBatchItem_FirstFile(data, index, files, time) ==
    [stage1 |-> Get(data, "stage1"),
     stage2 |-> NullishToUndefined(Get(data, "stage2")),
     stage3 |-> NullishToUndefined(Get(data, "stage3")),
     timestamp |-> time,
     imageUrl |-> CreateObjectURL(files[1])]

\* lines 87-93: the entry predictBatch builds from dataArray[index]
TransformBatchItem(data, index, files, time) ==
    [stage1 |-> Get(data, "stage1"),
     stage2 |-> NullishToUndefined(Get(data, "stage2")),
     stage3 |-> NullishToUndefined(Get(data, "stage3")),
     timestamp |-> time,
     imageUrl |-> CreateObjectURL(files[index])]

\* predictBatch(files), lines 68-94. dataArray.map runs over the response's
\* array: an entry beyond the files reads files[index] === undefined, and
\* URL.createObjectURL(undefined) throws a TypeError.
PredictBatchOutcome(files, fetch, time) ==
    IF fetch.kind = "network-error" THEN Threw("TypeError", <<"fetch failed">>)
    ELSE IF ~fetch.ok THEN Threw("Error", <<"Batch prediction failed: ", fetch.text>>)
    ELSE IF ~fetch.parses THEN Threw("SyntaxError", <<"invalid json">>)
    ELSE IF Len(fetch.json) > Len(files) THEN Threw("TypeError", <<"createObjectURL">>)
    ELSE Fulfilled([index \in 1..Len(fetch.json) |->
                        TransformBatchItem(fetch.json[index], index, files, time)])

\* ---- response bodies
Stage1Values == {[label |-> "Healthy", confidence |-> 92],
                 [label |-> "Anomalous", confidence |-> 88]}
Stage2Values == {[group_label |-> "Hotspot", confidence |-> 81]}
Stage3Values == {[fine_label |-> "Hot-Spot", confidence |-> 77]}

\* any JSON object a 2xx response of /predict may hold: each stage key absent,
\* null or an object (stage1: absent or an object)
AnyBody ==
    {[stage1 |-> s1, stage2 |-> s2, stage3 |-> s3] :
        s1 \in Stage1Values,
        s2 \in Stage2Values \cup {Null},
        s3 \in Stage3Values \cup {Null}}
    \cup {[stage1 |-> s1, stage3 |-> s3] :
            s1 \in Stage1Values, s3 \in Stage3Values \cup {Null}}
    \cup {[stage1 |-> s1, stage2 |-> s2] :
            s1 \in Stage1Values, s2 \in Stage2Values \cup {Null}}
    \cup {[stage1 |-> s1] : s1 \in Stage1Values}
    \cup {[error |-> "inference failed"]}

SeqsUpTo(S, n) == UNION {[1..k -> S] : k \in 0..n}

\* how the fetch of /predict can end, for any backend
AnyPredictFetch ==
    {NetworkError, HttpError("Internal Server Error"), HttpOkInvalidJson}
    \cup {HttpOk(body) : body \in AnyBody}

\* how the fetch of /predict-batch can end, for any backend
AnyBatchFetch ==
    {NetworkError, HttpError("Internal Server Error"), HttpOkInvalidJson}
    \cup {HttpOk(body) : body \in SeqsUpTo(AnyBody, MaxBatch)}

\* predictImage(file) is called and settles (the specification follows one
\* call of the service)
PredictImage(file, fetch) ==
    /\ apiOp = "none"
    /\ apiOp' = "predictImage"
    /\ apiFiles' = <<file>>
    /\ apiFetch' = fetch
    /\ apiPromise' = PredictImageOutcome(file, fetch, now)
    /\ classified' = <<>>
    /\ UNCHANGED <<now, storeVars, mockVars, pageVars, pollVars>>

\* predictBatch(files) is called and settles; `outcomes` is what the backend
\* made of each file when the response comes from the batch endpoint
PredictBatch(files, fetch, outcomes) ==
    /\ apiOp = "none"
    /\ apiOp' = "predictBatch"
    /\ apiFiles' = files
    /\ apiFetch' = fetch
    /\ apiPromise' = PredictBatchOutcome(files, fetch, now)
    /\ classified' = outcomes
    /\ UNCHANGED <<now, storeVars, mockVars, pageVars, pollVars>>

NextApi ==
    \/ \E file \in Files, fetch \in AnyPredictFetch : PredictImage(file, fetch)
    \/ \E files \in SeqsUpTo(Files, MaxBatch), fetch \in AnyBatchFetch :
            PredictBatch(files, fetch, <<>>)
    \/ Tick

SpecApi == Init /\ [][NextApi]_vars

(***************************************************************************)
(* The backend's POST /predict-batch (Batch Coordinator): one entry per    *)
(* uploaded image, in upload order, each a prediction or an error entry.   *)
(***************************************************************************)
\* what the backend makes of one image
BackendOutcomes ==
    {[kind |-> "prediction",
      stage1 |-> [label |-> "Healthy", confidence |-> 92],
      stage2 |-> Undefined, stage3 |-> Undefined],
     [kind |-> "prediction",
      stage1 |-> [label |-> "Anomalous", confidence |-> 88],
      stage2 |-> [group_label |-> "Hotspot", confidence |-> 81],
      stage3 |-> [fine_label |-> "Hot-Spot", confidence |-> 77]],
     [kind |-> "prediction",
      stage1 |-> [label |-> "Anomalous", confidence |-> 90],
      stage2 |-> [group_label |-> "Obstruction", confidence |-> 84],
      stage3 |-> [fine_label |-> "Soiling", confidence |-> 79]],
     [kind |-> "error", error |-> "cannot identify image file"],
     [kind |-> "error", error |-> "stage2 inference failed"]}

\* the JSON entry for one outcome; an absent stage is left out or sent as null
WireItem(outcome, nulls) ==
    IF outcome.kind = "error" THEN [error |-> outcome.error]
    ELSE IF Present(outcome.stage2)
    THEN [stage1 |-> outcome.stage1, stage2 |-> outcome.stage2, stage3 |-> outcome.stage3]
    ELSE IF nulls
    THEN [stage1 |-> outcome.stage1, stage2 |-> Null, stage3 |-> Null]
    ELSE [stage1 |-> outcome.stage1]

\* the response body: entry i is the outcome of image i
BatchEndpoint(outcomes, nulls) ==
    [i \in 1..Len(outcomes) |-> WireItem(outcomes[i], nulls)]

NextBatch ==
    \/ \E files \in SeqsUpTo(Files, MaxBatch), nulls \in BOOLEAN :
        \E outcomes \in [1..Len(files) -> BackendOutcomes] :
            PredictBatch(files, HttpOk(BatchEndpoint(outcomes, nulls)), outcomes)
    \/ \E files \in SeqsUpTo(Files, MaxBatch) :
        \E fetch \in {NetworkError, HttpError("Internal Server Error"), HttpOkInvalidJson} :
            PredictBatch(files, fetch, <<>>)
    \/ Tick

SpecBatch == Init /\ [][NextBatch]_vars

(***************************************************************************)
(* The backend's Artifact Store (ensure) and Model Registry (get): an      *)
(* artifact is downloaded on first demand and a model constructed on first *)
(* get, both single-flight per model identifier.                           *)
(***************************************************************************)
\* bug variant: a second caller does not wait for the download in flight
EnsureStep_NoSingleFlight(status) ==
    IF status = "present" THEN "return" ELSE "start"

\* ensure(spec) by CachedArtifact status: return the path, start the
\* download (absent, or failed: retried from scratch), or await the download
\* in flight
EnsureStep(status) ==
    CASE status = "present" -> "return"
      [] status \in {"absent", "failed"} -> "start"
      [] status = "downloading" -> "join"

\* bug variant: a second first request constructs the model again
GetStep_NoSingleFlight(slotState) ==
    CASE slotState = "loaded" -> "return"
      [] slotState = "mismatch" -> "fail"
      [] slotState \in {"empty", "loading"} -> "claim"

\* get(stageId) by slot: return the LoadedModel, fail (ArchitectureMismatch
\* is not retried), claim the construction, or await the one in flight
GetStep(slotState) ==
    CASE slotState = "loaded" -> "return"
      [] slotState = "mismatch" -> "fail"
      [] slotState = "empty" -> "claim"
      [] slotState = "loading" -> "join"

\* the callers waiting on the download of `id`, and on its construction
OnDownload(id) ==
    {c \in Callers : call[c].id = id /\ call[c].pc \in {"leadDownload", "joinDownload"}}
OnLoad(id) ==
    {c \in Callers : call[c].id = id /\ call[c].pc \in {"leadLoad", "joinLoad"}}

Settled(c, outcome) == [call[c] EXCEPT !.pc = "done", !.outcome = outcome]

\* caller c calls ensure(spec of id)
CallEnsure(c, id) ==
    /\ call[c].pc \in {"idle", "done"}
    /\ storeCalls < MaxStoreCalls
    /\ storeCalls' = storeCalls + 1
    /\ LET step == EnsureStep(artifact[id])
           new == [op |-> "ensure", id |-> id, pc |-> "idle", joined |-> FALSE,
                   outcome |-> "none"]
       IN  CASE step = "return" ->
                    /\ call' = [call EXCEPT ![c] =
                                    [new EXCEPT !.pc = "done", !.outcome = "path"]]
                    /\ UNCHANGED <<artifact, downloads>>
             [] step = "start" ->
                    /\ call' = [call EXCEPT ![c] = [new EXCEPT !.pc = "leadDownload"]]
                    /\ artifact' = [artifact EXCEPT ![id] = "downloading"]
                    /\ downloads' = [downloads EXCEPT ![id] = @ + 1]
             [] step = "join" ->
                    /\ call' = [call EXCEPT ![c] =
                                    [new EXCEPT !.pc = "joinDownload", !.joined = TRUE]]
                    /\ UNCHANGED <<artifact, downloads>>
    /\ UNCHANGED <<slot, loads, failures>>
    /\ UNCHANGED <<now, mockVars, apiVars, pageVars, pollVars>>

\* caller c calls get(id): the caller that claims the slot goes on to ensure
\* the artifact and then constructs the model
CallGet(c, id) ==
    /\ call[c].pc \in {"idle", "done"}
    /\ storeCalls < MaxStoreCalls
    /\ storeCalls' = storeCalls + 1
    /\ LET step == GetStep(slot[id])
           new == [op |-> "get", id |-> id, pc |-> "idle", joined |-> FALSE,
                   outcome |-> "none"]
       IN  CASE step = "return" ->
                    /\ call' = [call EXCEPT ![c] =
                                    [new EXCEPT !.pc = "done", !.outcome = "model"]]
                    /\ UNCHANGED <<artifact, slot, downloads, loads>>
             [] step = "fail" ->
                    /\ call' = [call EXCEPT ![c] =
                                    [new EXCEPT !.pc = "done",
                                                !.outcome = "ArchitectureMismatch"]]
                    /\ UNCHANGED <<artifact, slot, downloads, loads>>
             [] step = "join" ->
                    /\ call' = [call EXCEPT ![c] =
                                    [new EXCEPT !.pc = "joinLoad", !.joined = TRUE]]
                    /\ UNCHANGED <<artifact, slot, downloads, loads>>
             [] step = "claim" ->
                    /\ slot' = [slot EXCEPT ![id] = "loading"]
                    /\ LET ensure == EnsureStep(artifact[id]) IN
                       CASE ensure = "return" ->
                                /\ call' = [call EXCEPT ![c] = [new EXCEPT !.pc = "leadLoad"]]
                                /\ loads' = [loads EXCEPT ![id] = @ + 1]
                                /\ UNCHANGED <<artifact, downloads>>
                         [] ensure = "start" ->
                                /\ call' = [call EXCEPT ![c] =
                                                [new EXCEPT !.pc = "leadDownload"]]
                                /\ artifact' = [artifact EXCEPT ![id] = "downloading"]
                                /\ downloads' = [downloads EXCEPT ![id] = @ + 1]
                                /\ UNCHANGED loads
                         [] ensure = "join" ->
                                /\ call' = [call EXCEPT ![c] =
                                                [new EXCEPT !.pc = "joinDownload"]]
                                /\ UNCHANGED <<artifact, downloads, loads>>
    /\ UNCHANGED failures
    /\ UNCHANGED <<now, mockVars, apiVars, pageVars, pollVars>>

\* the download of `id` ends: verified and renamed into the cache (ok), or
\* failed; every caller awaiting it gets that outcome. A get call whose
\* ensure succeeded goes on to construct the model; when it failed, the call
\* and the get calls awaiting its construction fail with ArtifactUnavailable
\* and the slot is released.
DownloadEnds(id, ok) ==
    /\ artifact[id] = "downloading"
    /\ OnDownload(id) # {}
    /\ artifact' = [artifact EXCEPT ![id] = IF ok THEN "present" ELSE "failed"]
    /\ failures' = [failures EXCEPT ![id] = IF ok THEN @ ELSE @ + 1]
    /\ LET getters == {c \in OnDownload(id) : call[c].op = "get"} IN
       /\ call' = [c \in Callers |->
                    IF c \in OnDownload(id)
                    THEN IF ~ok THEN Settled(c, "ArtifactUnavailable")
                         ELSE IF call[c].op = "get"
                         THEN [call[c] EXCEPT !.pc = "leadLoad"]
                         ELSE Settled(c, "path")
                    ELSE IF c \in OnLoad(id) /\ ~ok /\ getters # {}
                    THEN Settled(c, "ArtifactUnavailable")
                    ELSE call[c]]
       /\ loads' = [loads EXCEPT ![id] = IF ok THEN @ + Cardinality(getters) ELSE @]
       /\ slot' = [slot EXCEPT ![id] = IF ~ok /\ getters # {} THEN "empty" ELSE @]
    /\ UNCHANGED <<downloads, storeCalls>>
    /\ UNCHANGED <<now, mockVars, apiVars, pageVars, pollVars>>

\* the construction of the model of `id` ends: the LoadedModel is stored
\* (ok), or its output shape does not match the ModelSpec
\* (ArchitectureMismatch); every get call awaiting it gets that outcome
ConstructEnds(id, ok) ==
    /\ \E c \in OnLoad(id) : call[c].pc = "leadLoad"
    /\ slot' = [slot EXCEPT ![id] = IF ok THEN "loaded" ELSE "mismatch"]
    /\ call' = [c \in Callers |->
                    IF c \in OnLoad(id)
                    THEN Settled(c, IF ok THEN "model" ELSE "ArchitectureMismatch")
                    ELSE call[c]]
    /\ UNCHANGED <<artifact, downloads, loads, failures, storeCalls>>
    /\ UNCHANGED <<now, mockVars, apiVars, pageVars, pollVars>>

NextStore ==
    \/ \E c \in Callers, id \in ModelIds : CallEnsure(c, id)
    \/ \E c \in Callers, id \in ModelIds : CallGet(c, id)
    \/ \E id \in ModelIds, ok \in BOOLEAN : DownloadEnds(id, ok)
    \/ \E id \in ModelIds, ok \in BOOLEAN : ConstructEnds(id, ok)

SpecStore == Init /\ [][NextStore]_vars

(***************************************************************************)
(* apiService: checkBackendHealth                                          *)
(***************************************************************************)
\* GET /health of the backend: {status: "ok"|"loading"|"error", message?}
HealthBodies ==
    {[status |-> st] : st \in {"ok", "loading", "error"}}
    \cup {[status |-> "ok", message |-> "Models loaded"],
          [status |-> "loading", message |-> "Downloading models"],
          [status |-> "error", message |-> "stage2 failed to load"]}

\* how the fetch of /health can end
HealthFetch ==
    {NetworkError, HttpError("Bad Gateway"), HttpOkInvalidJson}
    \cup {HttpOk(body) : body \in HealthBodies}

\* bug variant: no catch, the failure leaves checkBackendHealth as an exception
CheckBackendHealth_Rethrows(fetch) ==
    IF fetch.kind = "network-error" THEN Threw("TypeError", <<"fetch failed">>)
    ELSE IF ~fetch.ok THEN Threw("Error", <<"HTTP ", fetch.text>>)
    ELSE IF ~fetch.parses THEN Threw("SyntaxError", <<"invalid json">>)
    ELSE fetch.json

\* checkBackendHealth(), lines 22-33: every failure becomes a record
CheckBackendHealth(fetch) ==
    IF fetch.kind = "network-error" \/ ~fetch.ok \/ ~fetch.parses
    THEN [status |-> "error", message |-> "Backend not reachable"]
    ELSE fetch.json

(***************************************************************************)
(* Index page                                                              *)
(***************************************************************************)
\* POST /predict of the backend: stage1, and stage2 and stage3 for an
\* anomalous panel (null otherwise)
PredictBodies ==
    {[stage1 |-> [label |-> "Healthy", confidence |-> 92],
      stage2 |-> Null, stage3 |-> Null],
     [stage1 |-> [label |-> "Anomalous", confidence |-> 88],
      stage2 |-> [group_label |-> "Hotspot", confidence |-> 81],
      stage3 |-> [fine_label |-> "Hot-Spot", confidence |-> 77]]}

\* how the fetch of /predict can end on the page
PredictFetch ==
    {NetworkError, HttpError("Internal Server Error"), HttpOkInvalidJson}
    \cup {HttpOk(body) : body \in PredictBodies}

\* bug variant: only a reported error keeps the prediction from being sent
HealthOk_AllowsLoading(health) == health.status # "error"

\* line 108: the guard is `health.status !== "ok"`
HealthOk(health) == health.status = "ok"

\* obj.field || fallback, for a field that holds a string when it is there
FieldOr(obj, field, fallback) ==
    IF field \notin DOMAIN obj THEN fallback
    ELSE IF obj[field] = "" THEN fallback
    ELSE obj[field]

Min(a, b) == IF a < b THEN a ELSE b

\* bug variant: nothing is dropped
PushHistory_NoCap(r, prev) == <<r>> \o prev

\* line 124: [result, ...prev.slice(0, 9)]
PushHistory(r, prev) == <<r>> \o SubSeq(prev, 1, Min(9, Len(prev)))

\* history.findIndex((h) => h.timestamp === result.timestamp), 0-based
FindIndex(hist, r) ==
    IF \E i \in 1..Len(hist) : hist[i].timestamp = r.timestamp
    THEN (CHOOSE i \in 1..Len(hist) :
            /\ hist[i].timestamp = r.timestamp
            /\ \A j \in 1..(i - 1) : hist[j].timestamp # r.timestamp) - 1
    ELSE -1

\* bug variant: the stage of a failed analysis is shown as complete
AnalyzeCatch_ShowsComplete ==
    /\ toast' = [kind |-> "error", text |-> "Analysis failed. Please try again."]
    /\ currentStage' = "complete"
    /\ stageLog' = Append(stageLog, "complete")

\* bug variant: stages 2 and 3 are shown for every result
IsAnomalous_Always(r) == TRUE

\* line 116: result.stage1.label === "Anomalous"
IsAnomalous(r) == r.stage1.label = "Anomalous"

\* lines 131-133: catch
AnalyzeCatch ==
    /\ toast' = [kind |-> "error", text |-> "Analysis failed. Please try again."]
    /\ currentStage' = "idle"
    /\ stageLog' = Append(stageLog, "idle")

\* bug variant: handleAnalyze ends without releasing the processing flag
AnalyzeFinally_LeavesFlag ==
    /\ UNCHANGED isProcessing
    /\ apc' = "idle"

\* lines 134-136: finally; handleAnalyze is over
AnalyzeFinally ==
    /\ isProcessing' = FALSE
    /\ apc' = "idle"

\* lines 122-130: the analysis completes with `r`
AnalyzeComplete(r) ==
    /\ currentStage' = "complete"
    /\ currentResult' = r
    /\ history' = PushHistory(r, history)
    /\ toast' = IF r.stage1.label = "Healthy"
                THEN [kind |-> "success", text |-> "Analysis Complete: Panel is Healthy"]
                ELSE [kind |-> "warning",
                      text |-> IF Present(r.stage3)
                               THEN FieldOr(r.stage3, "fine_label", "Unknown fault")
                               ELSE "Unknown fault"]

\* handleImageSelect(file), lines 82-87; the uploader offers the file input
\* and the drop zone only while no image is selected (ImageUploader line 64)
HandleImageSelect(file) ==
    /\ selectedImage = NoFile
    /\ selectedImage' = file
    /\ currentResult' = Null
    /\ currentStage' = "idle"
    /\ selectedHistoryIndex' = NullIndex
    /\ UNCHANGED <<isProcessing, history, apc, analysisImage, analysisHealth,
                   analysisResult, analysisPredict, stageLog, requests, toast>>
    /\ UNCHANGED <<now, storeVars, mockVars, apiVars, pollVars>>

\* handleClear(), lines 89-94; the reset button is disabled, and the
\* uploader's clear button not rendered, while isProcessing
HandleClear ==
    /\ ~isProcessing
    /\ selectedImage' = NoFile
    /\ currentResult' = Null
    /\ currentStage' = "idle"
    /\ selectedHistoryIndex' = NullIndex
    /\ UNCHANGED <<isProcessing, history, apc, analysisImage, analysisHealth,
                   analysisResult, analysisPredict, stageLog, requests, toast>>
    /\ UNCHANGED <<now, storeVars, mockVars, apiVars, pollVars>>

\* bug variant: the Analyze button stays enabled during an analysis
AnalyzeDisabled_IgnoresProcessing == selectedImage = NoFile

\* line 238: disabled={!selectedImage || isProcessing}
AnalyzeDisabled == selectedImage = NoFile \/ isProcessing

\* handleAnalyze(), lines 96-107, up to `await checkBackendHealth()`; the
\* Analyze button is disabled when !selectedImage || isProcessing (line 238).
\* The click comes later than the millisecond the last result was stamped
\* with: no two results of the page carry the same timestamp.
HandleAnalyze ==
    /\ ~AnalyzeDisabled
    /\ \A i \in 1..Len(history) : history[i].timestamp < now
    /\ isProcessing' = TRUE
    /\ currentStage' = "stage1"
    /\ selectedHistoryIndex' = NullIndex
    /\ apc' = "health"
    /\ analysisImage' = selectedImage
    /\ analysisHealth' = NoCall
    /\ analysisResult' = Null
    /\ analysisPredict' = NoCall
    /\ stageLog' = <<"stage1">>
    /\ requests' = <<"health">>
    /\ UNCHANGED <<selectedImage, currentResult, history, toast>>
    /\ UNCHANGED <<now, storeVars, mockVars, apiVars, pollVars>>

\* handleAnalyze, lines 107-114: checkBackendHealth() has returned
AnalyzeHealthReturns(fetch) ==
    /\ apc = "health"
    /\ analysisHealth' = CheckBackendHealth(fetch)
    /\ IF HealthOk(analysisHealth')
       THEN /\ requests' = Append(requests, "predict")
            /\ apc' = "predict"
            /\ UNCHANGED <<isProcessing, currentStage, stageLog, toast>>
       ELSE /\ toast' = [kind |-> "error",
                         text |-> FieldOr(analysisHealth', "message",
                                          "Backend not reachable")]
            /\ currentStage' = "idle"
            /\ stageLog' = Append(stageLog, "idle")
            /\ AnalyzeFinally
            /\ UNCHANGED requests
    /\ UNCHANGED <<selectedImage, currentResult, history, selectedHistoryIndex,
                   analysisImage, analysisResult, analysisPredict>>
    /\ UNCHANGED <<now, storeVars, mockVars, apiVars, pollVars>>

\* handleAnalyze, lines 114-136: predictImage(selectedImage) has settled
AnalyzePredictReturns(fetch) ==
    /\ apc = "predict"
    /\ analysisPredict' = PredictImageOutcome(analysisImage, fetch, now)
    /\ LET outcome == analysisPredict' IN
       IF outcome.state = "rejected" \/ ~Present(outcome.value.stage1)
       THEN \* predictImage threw, or result.stage1.label throws a TypeError
            /\ AnalyzeCatch
            /\ AnalyzeFinally
            /\ UNCHANGED <<currentResult, history, analysisResult>>
       ELSE IF IsAnomalous(outcome.value)
       THEN /\ currentStage' = "stage2"
            /\ stageLog' = Append(stageLog, "stage2")
            /\ analysisResult' = outcome.value
            /\ apc' = "delay"
            /\ UNCHANGED <<isProcessing, currentResult, history, toast>>
       ELSE /\ AnalyzeComplete(outcome.value)
            /\ stageLog' = Append(stageLog, "complete")
            /\ AnalyzeFinally
            /\ analysisResult' = outcome.value
    /\ UNCHANGED <<selectedImage, selectedHistoryIndex, analysisImage,
                   analysisHealth, requests>>
    /\ UNCHANGED <<now, storeVars, mockVars, apiVars, pollVars>>

\* handleAnalyze, lines 118-136: the 150 ms timer has fired;
\* setCurrentStage("stage3") is overwritten by setCurrentStage("complete")
\* in the same continuation
AnalyzeDelayElapses ==
    /\ apc = "delay"
    /\ AnalyzeComplete(analysisResult)
    /\ stageLog' = stageLog \o <<"stage3", "complete">>
    /\ AnalyzeFinally
    /\ UNCHANGED <<selectedImage, selectedHistoryIndex, analysisImage,
                   analysisHealth, analysisResult, analysisPredict, requests>>
    /\ UNCHANGED <<now, storeVars, mockVars, apiVars, pollVars>>

\* handleHistorySelect(history[i]), lines 139-144: a click on an entry of the
\* history list
HandleHistorySelect(i) ==
    /\ i \in 1..Len(history)
    /\ currentResult' = history[i]
    /\ currentStage' = "complete"
    /\ selectedHistoryIndex' = FindIndex(history, history[i])
    /\ UNCHANGED <<selectedImage, isProcessing, history, apc, analysisImage,
                   analysisHealth, analysisResult, analysisPredict, stageLog,
                   requests, toast>>
    /\ UNCHANGED <<now, storeVars, mockVars, apiVars, pollVars>>

\* a click on the Analyze button (line 237); the page's runs stop at
\* MaxAnalyses results
ClickAnalyze ==
    /\ Len(history) < MaxAnalyses
    /\ HandleAnalyze

NextPage ==
    \/ \E file \in Files : HandleImageSelect(file)
    \/ HandleClear
    \/ ClickAnalyze
    \/ \E fetch \in HealthFetch : AnalyzeHealthReturns(fetch)
    \/ \E fetch \in PredictFetch : AnalyzePredictReturns(fetch)
    \/ AnalyzeDelayElapses
    \/ \E i \in 1..MaxAnalyses : HandleHistorySelect(i)
    \/ Tick

SpecPage == Init /\ [][NextPage]_vars

\* the promises handleAnalyze awaits settle: a fetch resolves or rejects, the
\* 150 ms timer fires
SpecPageFair ==
    /\ SpecPage
    /\ WF_vars(\E fetch \in HealthFetch : AnalyzeHealthReturns(fetch))
    /\ WF_vars(\E fetch \in PredictFetch : AnalyzePredictReturns(fetch))
    /\ WF_vars(AnalyzeDelayElapses)

(***************************************************************************)
(* Index page: a long run of analyses of one image (the history list)      *)
(***************************************************************************)
\* how the health check and the prediction of an analysis end in the long run
LongRunHealthFetch == {NetworkError, HttpOk([status |-> "ok"])}
LongRunPredictFetch ==
    {HttpError("Internal Server Error")} \cup {HttpOk(body) : body \in PredictBodies}

\* time passes between a result and the next click on Analyze
HistoryTick ==
    /\ apc = "idle"
    /\ Len(history) > 0
    /\ history[1].timestamp = now
    /\ now < MaxHistoryClock
    /\ now' = now + 1
    /\ UNCHANGED <<mockVars, apiVars, pageVars, pollVars, storeVars>>

NextHistory ==
    \/ HandleImageSelect("panelA.jpg")
    \/ HandleAnalyze
    \/ \E fetch \in LongRunHealthFetch : AnalyzeHealthReturns(fetch)
    \/ \E fetch \in LongRunPredictFetch : AnalyzePredictReturns(fetch)
    \/ AnalyzeDelayElapses
    \/ HistoryTick

SpecHistory == Init /\ [][NextHistory]_vars

(***************************************************************************)
(* PipelineVisualizer, rendered by the Index page with currentStage and    *)
(* currentResult (part_003 lines 267-270)                                  *)
(***************************************************************************)
\* lines 116-117: stages.indexOf(currentStage)
StageIndex(stage) ==
    CASE stage = "idle" -> 0
      [] stage = "stage1" -> 1
      [] stage = "stage2" -> 2
      [] stage = "stage3" -> 3
      [] stage = "complete" -> 4

\* line 119: result?.stage1?.label === "Healthy"
IsHealthy(r) == r # Null /\ Present(r.stage1) /\ r.stage1.label = "Healthy"

\* lines 152-160, 167-175, 182-190: the props of the three stage cards
Stage1Card(stage, r) ==
    [isActive |-> stage = "stage1",
     isComplete |-> StageIndex(stage) > 1,
     isSkipped |-> FALSE]
Stage2Card(stage, r) ==
    [isActive |-> stage = "stage2",
     isComplete |-> StageIndex(stage) > 2,
     isSkipped |-> IsHealthy(r)]
Stage3Card(stage, r) ==
    [isActive |-> stage = "stage3",
     isComplete |-> stage = "complete",
     isSkipped |-> IsHealthy(r)]

(***************************************************************************)
(* Index page: health polling                                              *)
(***************************************************************************)
\* what checkBackendHealth's declared result type admits from a 2xx /health:
\* {status: string; message?: string}
PolledBodies ==
    {[status |-> st] : st \in {"ok", "loading", "error", "degraded"}}
    \cup {[status |-> st, message |-> m] :
            st \in {"ok", "loading", "error", "degraded"},
            m \in {"", "Downloading models"}}

\* how the fetch of /health can end when polled
PolledFetch ==
    {NetworkError, HttpError("Bad Gateway"), HttpOkInvalidJson}
    \cup {HttpOk(body) : body \in PolledBodies}

\* bug variant: a status that is neither "ok" nor "loading" leaves the page
\* waiting
NextStatus_OtherIsLoading(health) ==
    IF "status" \in DOMAIN health /\ health.status = "ok" THEN "ready"
    ELSE "loading"

\* bug variant: a reported error resets the page to its initial status
NextStatus_ErrorIsUnknown(health) ==
    IF "status" \in DOMAIN health /\ health.status = "ok" THEN "ready"
    ELSE IF "status" \in DOMAIN health /\ health.status = "loading" THEN "loading"
    ELSE "unknown"

\* lines 40-45: nextStatus
NextStatus(health) ==
    IF "status" \in DOMAIN health /\ health.status = "ok" THEN "ready"
    ELSE IF "status" \in DOMAIN health /\ health.status = "loading" THEN "loading"
    ELSE "error"

\* line 48: health.message ?? null
MessageOrNull(health) ==
    IF "message" \in DOMAIN health THEN JsString(health.message) ELSE Null

\* bug variant: no back-off once ready
NextDelay_NoBackOff(nextStatus) == 5000

\* line 65: nextDelay
NextDelay(nextStatus) == IF nextStatus = "ready" THEN 30000 ELSE 5000

\* pollHealth, lines 35-67: checkBackendHealth() has returned
PollHealthReturns(fetch) ==
    /\ ppc = "fetching"
    /\ polledFetch' = fetch
    /\ polledHealth' = CheckBackendHealth(fetch)
    /\ IF cancelled
       THEN /\ ppc' = "stopped"
            /\ UNCHANGED <<backendStatus, backendMessage, showReadyBanner,
                           lastStatusRef, readyTimeoutRef, timeoutId, polls>>
       ELSE LET nextStatus == NextStatus(polledHealth') IN
            /\ backendStatus' = nextStatus
            /\ backendMessage' = MessageOrNull(polledHealth')
            /\ IF nextStatus # lastStatusRef
               THEN /\ IF nextStatus = "ready"
                       THEN /\ showReadyBanner' = TRUE
                            /\ readyTimeoutRef' = Timer(6000)
                       ELSE /\ showReadyBanner' = FALSE
                            /\ UNCHANGED readyTimeoutRef
                    /\ lastStatusRef' = nextStatus
               ELSE UNCHANGED <<showReadyBanner, readyTimeoutRef, lastStatusRef>>
            /\ timeoutId' = Timer(NextDelay(nextStatus))
            /\ ppc' = "waiting"
            /\ polls' = Min(polls + 1, MaxPolls)
    /\ UNCHANGED cancelled
    /\ UNCHANGED <<now, storeVars, mockVars, apiVars, pageVars>>

\* bug variant: the timer repeats (setInterval): it stays pending when it fires
FiredTimer_Repeats(timer) == timer

\* a timer set with setTimeout fires once
FiredTimer(timer) == [timer EXCEPT !.state = "fired"]

\* the timer of line 66 fires: pollHealth runs up to its await. A pending
\* banner timer (6000 ms, set no later than this timer, which waits 5000 ms
\* after a poll that did not yield ready or 30000 ms after one that did) is
\* due before it.
PollTimerFires ==
    /\ ppc = "waiting"
    /\ timeoutId.state = "pending"
    /\ readyTimeoutRef.state # "pending"
    /\ timeoutId' = FiredTimer(timeoutId)
    /\ ppc' = "fetching"
    /\ UNCHANGED <<backendStatus, backendMessage, showReadyBanner, lastStatusRef,
                   readyTimeoutRef, cancelled, polledFetch, polledHealth, polls>>
    /\ UNCHANGED <<now, storeVars, mockVars, apiVars, pageVars>>

\* the timer of lines 56-58 fires
ReadyBannerTimeout ==
    /\ readyTimeoutRef.state = "pending"
    /\ readyTimeoutRef' = FiredTimer(readyTimeoutRef)
    /\ showReadyBanner' = FALSE
    /\ UNCHANGED <<backendStatus, backendMessage, lastStatusRef, cancelled,
                   timeoutId, ppc, polledFetch, polledHealth, polls>>
    /\ UNCHANGED <<now, storeVars, mockVars, apiVars, pageVars>>

\* bug variant: the cleanup leaves the timers running
ClearTimeout_Noop(timer) == timer

\* window.clearTimeout(id)
ClearTimeout(timer) ==
    IF timer.state = "pending" THEN [timer EXCEPT !.state = "cleared"] ELSE timer

\* the page unmounts: the effect's cleanup, lines 71-79
Unmount ==
    /\ ~cancelled
    /\ cancelled' = TRUE
    /\ timeoutId' = ClearTimeout(timeoutId)
    /\ readyTimeoutRef' = ClearTimeout(readyTimeoutRef)
    /\ ppc' = IF ppc = "waiting" /\ timeoutId'.state # "pending" THEN "stopped" ELSE ppc
    /\ UNCHANGED <<backendStatus, backendMessage, showReadyBanner, lastStatusRef,
                   polledFetch, polledHealth, polls>>
    /\ UNCHANGED <<now, storeVars, mockVars, apiVars, pageVars>>

NextPoll ==
    \/ \E fetch \in PolledFetch : PollHealthReturns(fetch)
    \/ PollTimerFires
    \/ ReadyBannerTimeout
    \/ Unmount

SpecPoll == Init /\ [][NextPoll]_vars

(***************************************************************************)
(* Claims about mockPredictionService.ts (SpecMock)                        *)
(***************************************************************************)
Range(seq) == {seq[i] : i \in 1..Len(seq)}
IsPrefix(s, t) == Len(s) <= Len(t) /\ \A i \in 1..Len(s) : s[i] = t[i]
StageOrder == <<1, 2, 3>>
\* the stage numbers of a log of <<stage, x>> pairs
StagesOf(log) == [i \in 1..Len(log) |-> log[i][1]]

\* C1: a runFullPrediction call whose stage 1 returned "Healthy" resolves with
\* a result that carries stage1 only: stage2 and stage3 are absent.
C1_HealthyHasStage1Only ==
    (promise.state = "fulfilled" /\ promise.value.stage1.label = "Healthy")
        => /\ promise.value.stage2 = Undefined
           /\ promise.value.stage3 = Undefined

C1_Witness ==
    /\ promise.state = "fulfilled"
    /\ promise.value.stage1.label = "Healthy"
    /\ stageReturns = <<<<1, "resolved">>>>

\* C2: once stage 1 has returned "Healthy", runStage2 and runStage3 are never
\* invoked and onStageComplete never fires for stage 2 or 3, in any state of
\* the call.
C2_HealthySkipsLaterStages ==
    (result # Undefined /\ result.stage1.label = "Healthy")
        => /\ stageCalls = <<1>>
           /\ \A i \in 1..Len(notified) : notified[i][1] = 1
           /\ stage3Arg = NoArg

C2_Witness ==
    /\ mpc = "returned"
    /\ result.stage1.label = "Healthy"
    /\ hasCallback
    /\ Len(notified) = 1

\* C3: a call whose stage 1 returned "Anomalous" and whose stages 2 and 3
\* succeeded resolves with stage2 and stage3 present, and stage3.fine_label
\* is one of GROUP_FAULT_MAPPING[stage2.group_label].
C3_AnomalousHasConsistentStages ==
    (promise.state = "fulfilled" /\ promise.value.stage1.label = "Anomalous")
        => /\ Present(promise.value.stage2)
           /\ Present(promise.value.stage3)
           /\ promise.value.stage2.group_label \in DOMAIN GROUP_FAULT_MAPPING
           /\ promise.value.stage3.fine_label
                \in Range(GROUP_FAULT_MAPPING[promise.value.stage2.group_label])

C3_Witness ==
    /\ promise.state = "fulfilled"
    /\ promise.value.stage1.label = "Anomalous"
    /\ promise.value.stage2.group_label = "Electrical-Fault"
    /\ promise.value.stage3.fine_label = "Offline-Module"

\* C5: the stages of one call run in the order 1, 2, 3 without overlap: a
\* stage is invoked only when every stage invoked before it has returned, and
\* the onStageComplete notifications come in increasing stage order, one per
\* returned stage at most.
C5_StagesSequential ==
    /\ IsPrefix(stageCalls, StageOrder)
    /\ IsPrefix(StagesOf(stageReturns), stageCalls)
    /\ Len(stageCalls) - Len(stageReturns) \in {0, 1}
    /\ IsPrefix(StagesOf(notified), StageOrder)
    /\ Len(notified) <= Len(stageReturns)

C5_Witness ==
    /\ stageCalls = StageOrder
    /\ StagesOf(stageReturns) = StageOrder
    /\ StagesOf(notified) = StageOrder

\* C8: when a stage of runFullPrediction rejects, the call rejects: no later
\* stage is invoked and no result, partial or not, is returned as a success.
C8_StageFailureFailsCall ==
    \A i \in 1..Len(stageReturns) :
        stageReturns[i][2] = "rejected"
            => /\ promise.state = "rejected"
               /\ promise.stage = stageReturns[i][1]
               /\ Len(stageCalls) = stageReturns[i][1]
               /\ i = Len(stageReturns)

C8_Witness ==
    /\ promise.state = "rejected"
    /\ stageReturns = <<<<1, "resolved">>, <<2, "resolved">>, <<3, "rejected">>>>
    /\ Present(result.stage2)

\* C9: asked to classify under a group label that has no entry in
\* GROUP_FAULT_MAPPING, runStage3 surfaces an error and returns no fallback
\* fine label.
C9_NoFallbackLabel ==
    (direct3 # NoCall /\ direct3.groupLabel \notin DOMAIN GROUP_FAULT_MAPPING)
        => direct3.outcome.state = "rejected"

(***************************************************************************)
(* Claims about apiService (SpecApi, SpecBatch)                            *)
(***************************************************************************)
\* the PredictionResults the settled call handed to its caller
ResultsHanded ==
    IF apiPromise.state # "fulfilled" THEN {}
    ELSE IF apiOp = "predictImage" THEN {apiPromise.value}
    ELSE Range(apiPromise.value)

\* section 3: stage3 present => stage2 present => stage1.label = "Anomalous"
StructuralInvariant(r) ==
    /\ Present(r.stage3) => Present(r.stage2)
    /\ Present(r.stage2) => (Present(r.stage1) /\ r.stage1.label = "Anomalous")

\* C4: every PredictionResult predictImage or predictBatch hands to its
\* caller, whatever the 2xx response body, has stage3 only with stage2 and
\* stage2 only with stage1.label = "Anomalous".
C4_ResultsAreStructurallyValid ==
    \A r \in ResultsHanded : StructuralInvariant(r)

\* C6: when predictBatch returns, its output has one entry per input file in
\* input order: the same length as files, and entry i belongs to files[i]
\* (its imageUrl is built from files[i], its stages are those the backend
\* predicted for image i).
C6_BatchOneEntryPerFileInOrder ==
    (apiOp = "predictBatch" /\ apiPromise.state = "fulfilled")
        => /\ Len(apiPromise.value) = Len(apiFiles)
           /\ \A i \in 1..Len(apiFiles) :
                /\ apiPromise.value[i].imageUrl = CreateObjectURL(apiFiles[i])
                /\ classified[i].kind = "prediction"
                    => /\ apiPromise.value[i].stage1 = classified[i].stage1
                       /\ apiPromise.value[i].stage2 = classified[i].stage2
                       /\ apiPromise.value[i].stage3 = classified[i].stage3

C6_Witness ==
    /\ apiOp = "predictBatch"
    /\ apiPromise.state = "fulfilled"
    /\ Len(apiFiles) = 2
    /\ apiFiles[1] # apiFiles[2]
    /\ classified[1].kind = "prediction"
    /\ classified[2].kind = "prediction"
    /\ classified[1].stage1.label # classified[2].stage1.label

\* entry.error === message
CarriesError(entry, message) ==
    "error" \in DOMAIN entry /\ entry.error = message

\* C7: when the backend reports a failure for the item at index k, the output
\* of predictBatch holds an error entry at position k that carries the item's
\* error, and every other position holds its own prediction unchanged.
C7_ItemFailureIsCarried ==
    (apiOp = "predictBatch" /\ apiPromise.state = "fulfilled")
        => \A k \in 1..Len(classified) :
            /\ k <= Len(apiPromise.value)
            /\ IF classified[k].kind = "error"
               THEN CarriesError(apiPromise.value[k], classified[k].error)
               ELSE /\ apiPromise.value[k].stage1 = classified[k].stage1
                    /\ apiPromise.value[k].stage2 = classified[k].stage2
                    /\ apiPromise.value[k].stage3 = classified[k].stage3

(***************************************************************************)
(* Claims about the Index page (SpecPage)                                  *)
(***************************************************************************)
\* this step sends the prediction request of the running analysis
SendsPredict ==
    /\ Len(requests') = Len(requests) + 1
    /\ requests'[Len(requests')] = "predict"

\* this step receives the health check of the running analysis
HealthCheckReturns == apc = "health" /\ apc' # "health"

\* C10: handleAnalyze sends the prediction request only after the health
\* check of the same analysis returned status "ok"; when that health check
\* returns anything else, no prediction request is sent, the analysis ends
\* and currentStage goes back to idle.
C10_ReadinessCheckedFirst ==
    /\ []("predict" \in Range(requests)
            => (requests = <<"health", "predict">> /\ analysisHealth.status = "ok"))
    /\ [][/\ SendsPredict => (HealthCheckReturns /\ analysisHealth'.status = "ok")
          /\ (HealthCheckReturns /\ analysisHealth'.status # "ok")
                => /\ requests' = <<"health">>
                   /\ currentStage' = "idle"
                   /\ apc' = "idle"]_vars

C10_Witness ==
    /\ apc = "idle"
    /\ analysisHealth = [status |-> "loading", message |-> "Downloading models"]
    /\ requests = <<"health">>
    /\ currentStage = "idle"
    /\ ~isProcessing
    /\ toast = [kind |-> "error", text |-> "Downloading models"]

\* this step is the one in which predictImage fails towards handleAnalyze
PredictFails ==
    /\ apc = "predict"
    /\ apc' # "predict"
    /\ analysisPredict'.state = "rejected"

\* C16: when predictImage fails inside handleAnalyze, the failing step leaves
\* history and currentResult as they are, sets currentStage to idle and ends
\* the analysis; handleAnalyze sets the stage to complete only when
\* predictImage returned a result, and a failed analysis has set the stage to
\* stage1 and idle only.
C16_FailedPredictionRecordsNothing ==
    /\ [][PredictFails
            => /\ history' = history
               /\ currentResult' = currentResult
               /\ currentStage' = "idle"
               /\ apc' = "idle"]_vars
    /\ [](/\ "complete" \in Range(stageLog) => analysisPredict.state = "fulfilled"
          /\ analysisPredict.state = "rejected" => stageLog = <<"stage1", "idle">>)

C16_Witness ==
    /\ apc = "idle"
    /\ analysisPredict = Threw("Error", <<"Prediction failed: ", "Internal Server Error">>)
    /\ Len(history) = 1
    /\ currentResult = history[1]
    /\ currentStage = "idle"
    /\ ~isProcessing
    /\ toast = [kind |-> "error", text |-> "Analysis failed. Please try again."]

\* the running or last analysis got a result with this stage1 label
ResultLabelled(label) ==
    /\ analysisPredict.state = "fulfilled"
    /\ analysisPredict.value.stage1.label = label

\* C17: handleAnalyze sets the stage to stage2 and stage3 only in an
\* analysis whose result is labelled "Anomalous", where it goes stage1,
\* stage2, stage3, complete; for a "Healthy" result it goes from stage1
\* straight to complete, and currentStage is stage2 or stage3 only while an
\* Anomalous analysis is running.
C17_StageFollowsCascade ==
    /\ currentStage \in {"stage2", "stage3"}
        => (apc = "delay" /\ ResultLabelled("Anomalous"))
    /\ ("stage2" \in Range(stageLog) \/ "stage3" \in Range(stageLog))
        => ResultLabelled("Anomalous")
    /\ ResultLabelled("Healthy") => stageLog = <<"stage1", "complete">>
    /\ ResultLabelled("Anomalous")
        => \/ apc = "delay" /\ stageLog = <<"stage1", "stage2">>
           \/ apc = "idle" /\ stageLog = <<"stage1", "stage2", "stage3", "complete">>

C17_Witness ==
    /\ apc = "idle"
    /\ Len(history) = 2
    /\ history[2].stage1.label = "Anomalous"
    /\ ResultLabelled("Healthy")
    /\ history[1] = analysisPredict.value
    /\ stageLog = <<"stage1", "complete">>
    /\ currentStage = "complete"

\* C18: whenever selectedHistoryIndex is not null, the history entry at that
\* index is the result displayed (currentResult).
C18_SelectedEntryIsDisplayed ==
    selectedHistoryIndex # NullIndex
        => /\ selectedHistoryIndex \in 0..(Len(history) - 1)
           /\ history[selectedHistoryIndex + 1] = currentResult

\* this step starts a handleAnalyze run
AnalysisStarts ==
    /\ apc' = "health"
    /\ stageLog' = <<"stage1">>
    /\ stageLog # <<"stage1">>

\* C19: one analysis is in flight at most and its image stays: isProcessing
\* holds exactly while a handleAnalyze run is suspended, no run starts while
\* isProcessing, and while isProcessing selectedImage is the image the run
\* was started on and no step changes it.
C19_OneAnalysisImageFixed ==
    /\ [](/\ isProcessing <=> apc # "idle"
          /\ isProcessing => (selectedImage # NoFile /\ selectedImage = analysisImage))
    /\ [][isProcessing
            => /\ ~AnalysisStarts
               /\ selectedImage' = selectedImage
               /\ analysisImage' = analysisImage]_vars

C19_Witness ==
    /\ isProcessing
    /\ apc = "predict"
    /\ Len(history) = 1
    /\ selectedImage = analysisImage
    /\ selectedImage # history[1].imageUrl.blob
    /\ selectedHistoryIndex = 0

\* C20: the processing flag is released on every exit path: every step that
\* ends a handleAnalyze run sets isProcessing to false, and a run that set it
\* ends, whether it completes, returns early or catches.
C20_ProcessingFlagReleased ==
    /\ [][(apc # "idle" /\ apc' = "idle") => ~isProcessing']_vars
    /\ isProcessing ~> ~isProcessing

C20_Witness ==
    /\ apc = "idle"
    /\ ~isProcessing
    /\ analysisPredict = Threw("TypeError", <<"fetch failed">>)
    /\ stageLog = <<"stage1", "idle">>
    /\ selectedImage # NoFile

\* this step ends a handleAnalyze run
AnalysisEnds == apc # "idle" /\ apc' = "idle"

\* C21: history holds 10 entries at most, newest first; an analysis that
\* ends with a result puts it at index 0, keeps the entries before it in
\* their order and drops what lies beyond the tenth; no other step, and no
\* analysis that fails or is stopped by the health check, changes history.
C21_HistoryNewestFirstAtMostTen ==
    /\ [](/\ Len(history) <= 10
          /\ \A i, j \in 1..Len(history) :
                i < j => history[i].timestamp > history[j].timestamp)
    /\ [][/\ history' # history
                => (AnalysisEnds /\ analysisPredict'.state = "fulfilled")
          /\ (AnalysisEnds /\ analysisPredict'.state = "fulfilled")
                => /\ history'[1] = analysisPredict'.value
                   /\ Len(history') = Min(Len(history) + 1, 10)
                   /\ \A i \in 2..Len(history') : history'[i] = history[i - 1]
          /\ (AnalysisEnds /\ analysisPredict'.state # "fulfilled")
                => history' = history]_vars

C21_Witness ==
    /\ Len(history) = 10
    /\ history[10].timestamp = 1
    /\ history[1].timestamp = 10
    /\ history[1].stage1.label = "Healthy"
    /\ history[2].stage1.label = "Anomalous"
    /\ apc = "idle"
    /\ currentResult = history[1]

(***************************************************************************)
(* Claims about the health polling of the Index page (SpecPoll)            *)
(***************************************************************************)
\* the fetch of the last returned health check failed: it rejected, the
\* response was not 2xx, or the body did not parse
PolledFetchFailed ==
    /\ polledFetch # NoCall
    /\ \/ polledFetch.kind = "network-error"
       \/ ~polledFetch.ok
       \/ ~polledFetch.parses

\* C11: after every health poll completed on the mounted page, backendStatus
\* is ready iff the reported status is "ok", loading iff it is "loading" and
\* error for every other reported status, and backendMessage is the reported
\* message, null when there is none.
C11_StatusMirrorsHealth ==
    (polls > 0 /\ ~cancelled)
        => /\ backendStatus = "ready" <=> polledHealth.status = "ok"
           /\ backendStatus = "loading" <=> polledHealth.status = "loading"
           /\ backendStatus = "error" <=> polledHealth.status \notin {"ok", "loading"}
           /\ IF "message" \in DOMAIN polledHealth
              THEN backendMessage = JsString(polledHealth.message)
              ELSE backendMessage = Null

C11_Witness ==
    /\ polls > 1
    /\ ~cancelled
    /\ polledHealth = [status |-> "degraded", message |-> ""]
    /\ backendStatus = "error"
    /\ backendMessage = JsString("")

\* C13: while the page is mounted polling goes on: a health check is in
\* flight or the next poll is scheduled, and every poll that completes
\* schedules the next one, 30000 ms later if it yielded ready and 5000 ms
\* later if it yielded loading or error.
C13_PollingContinuesWithBackOff ==
    /\ [](~cancelled =>
            \/ ppc = "fetching"
            \/ /\ ppc = "waiting"
               /\ timeoutId.state = "pending"
               /\ backendStatus = "ready" => timeoutId.delay = 30000
               /\ backendStatus \in {"loading", "error"} => timeoutId.delay = 5000)
    /\ [][(ppc = "fetching" /\ ppc' # "fetching" /\ ~cancelled)
            => /\ ppc' = "waiting"
               /\ backendStatus' \in {"ready", "loading", "error"}
               /\ timeoutId' = Timer(IF backendStatus' = "ready" THEN 30000 ELSE 5000)]_vars

C13_Witness ==
    /\ ~cancelled
    /\ polls > 1
    /\ ppc = "waiting"
    /\ backendStatus = "ready"
    /\ timeoutId = Timer(30000)
    /\ readyTimeoutRef.state = "fired"

\* C14: backendStatus is unknown exactly as long as no poll has completed on
\* the mounted page; from the first completed poll on it is one of loading,
\* ready and error, and it never goes back to unknown.
C14_UnknownOnlyBeforeFirstPoll ==
    /\ [](/\ backendStatus = "unknown" <=> polls = 0
          /\ backendStatus \in {"unknown", "loading", "ready", "error"})
    /\ [][backendStatus # "unknown" => backendStatus' # "unknown"]_vars

C14_Witness ==
    /\ polls > 1
    /\ backendStatus = "error"
    /\ lastStatusRef = "error"
    /\ polledFetch = NetworkError
    /\ readyTimeoutRef.state = "fired"

\* C15: checkBackendHealth does not fail towards its caller: when the fetch
\* rejects, the response is not 2xx or the body does not parse, it returns a
\* record with status "error" and a non-empty message.
C15_HealthCheckNeverThrows ==
    PolledFetchFailed
        => /\ "status" \in DOMAIN polledHealth
           /\ polledHealth.status = "error"
           /\ "message" \in DOMAIN polledHealth
           /\ polledHealth.message # ""

C15_Witness ==
    /\ polledFetch = HttpOkInvalidJson
    /\ polledHealth = [status |-> "error", message |-> "Backend not reachable"]
    /\ backendStatus = "error"
    /\ backendMessage = JsString("Backend not reachable")

(***************************************************************************)
(* Claims about the backend's Artifact Store and Model Registry (SpecStore)*)
(***************************************************************************)
InFlight(c) == call[c].pc \notin {"idle", "done"}

\* C12: however many callers ask for the same model identifier while it is
\* not there yet, one download and one construction of it are in flight at
\* most, a further download starts only after one failed and the model is
\* constructed once; the callers of an operation that await the same
\* in-flight work end together, with the same outcome.
C12_SingleFlightPerIdentifier ==
    /\ [](\A id \in ModelIds :
            /\ Cardinality({c \in Callers : call[c].id = id
                                            /\ call[c].pc = "leadDownload"}) <= 1
            /\ Cardinality({c \in Callers : call[c].id = id
                                            /\ call[c].pc = "leadLoad"}) <= 1
            /\ downloads[id] <= failures[id] + 1
            /\ loads[id] <= 1
            /\ \A c \in Callers :
                (call[c].id = id /\ call[c].outcome = "model")
                    => (loads[id] = 1 /\ downloads[id] = failures[id] + 1))
    /\ [][\A c, d \in Callers :
            (/\ InFlight(c) /\ InFlight(d)
             /\ call[c].id = call[d].id
             /\ call[c].op = call[d].op)
                => /\ call'[c].pc = "done" <=> call'[d].pc = "done"
                   /\ call'[c].outcome = call'[d].outcome]_vars

C12_Witness ==
    /\ storeCalls = 2
    /\ call[1] = [op |-> "get", id |-> "stage1", pc |-> "done", joined |-> FALSE,
                  outcome |-> "model"]
    /\ call[2] = [op |-> "get", id |-> "stage1", pc |-> "done", joined |-> TRUE,
                  outcome |-> "model"]
    /\ downloads["stage1"] = 1
    /\ loads["stage1"] = 1

\* this step starts a health poll: pollHealth calls checkBackendHealth
PollStarts == ppc # "fetching" /\ ppc' = "fetching"

\* C22: after the unmount no timer of the effect is pending and no health
\* poll is started; a poll that was in flight at the unmount, when it
\* returns, changes neither backendStatus, backendMessage, the ready banner
\* nor lastStatusRef and sets no timer.
C22_UnmountCancelsPolling ==
    /\ [](cancelled
            => /\ timeoutId.state # "pending"
               /\ readyTimeoutRef.state # "pending"
               /\ ppc \in {"fetching", "stopped"})
    /\ [][cancelled
            => /\ ~PollStarts
               /\ cancelled'
               /\ backendStatus' = backendStatus
               /\ backendMessage' = backendMessage
               /\ showReadyBanner' = showReadyBanner
               /\ lastStatusRef' = lastStatusRef
               /\ timeoutId' = timeoutId
               /\ readyTimeoutRef' = readyTimeoutRef]_vars

C22_Witness ==
    /\ cancelled
    /\ ppc = "stopped"
    /\ polledFetch = HttpOk([status |-> "ok"])
    /\ backendStatus = "loading"
    /\ ~showReadyBanner
    /\ timeoutId.state = "fired"
    /\ readyTimeoutRef = NoTimer

\* the polls in flight and the polls scheduled by a timer
InFlightPolls == IF ppc = "fetching" THEN 1 ELSE 0
ScheduledPolls == IF timeoutId.state = "pending" THEN 1 ELSE 0

\* C23: one poll at most is pending, in flight or scheduled by a timer: a
\* poll is scheduled only by the step in which the poll in flight completes,
\* and a poll starts only by the firing of that timer.
C23_SinglePollChain ==
    /\ [](InFlightPolls + ScheduledPolls <= 1)
    /\ [][/\ (timeoutId'.state = "pending" /\ timeoutId' # timeoutId)
                => (ppc = "fetching" /\ ppc' = "waiting")
          /\ PollStarts
                => (timeoutId.state = "pending" /\ timeoutId'.state = "fired")]_vars

C23_Witness ==
    /\ polls > 1
    /\ ppc = "fetching"
    /\ timeoutId = [state |-> "fired", delay |-> 30000]
    /\ backendStatus = "ready"
    /\ ~cancelled

(***************************************************************************)
(* Claims about PipelineVisualizer (SpecPage)                              *)
(***************************************************************************)
\* the stage cards as the page renders them
RenderedCards ==
    {Stage1Card(currentStage, currentResult),
     Stage2Card(currentStage, currentResult),
     Stage3Card(currentStage, currentResult)}

\* C24: no stage card is both skipped and complete, and while the displayed
\* result is labelled "Healthy" the stage 2 and stage 3 cards are skipped and
\* not complete, whatever the pipeline stage.
C24_SkippedCardNotComplete ==
    /\ \A card \in RenderedCards : ~(card.isSkipped /\ card.isComplete)
    /\ IsHealthy(currentResult)
        => /\ Stage2Card(currentStage, currentResult).isSkipped
           /\ ~Stage2Card(currentStage, currentResult).isComplete
           /\ Stage3Card(currentStage, currentResult).isSkipped
           /\ ~Stage3Card(currentStage, currentResult).isComplete

====
